---- MODULE Spec2Model ----
(***************************************************************************)
(* Model of the SimpleInboxStatus background page                          *)
(* (src/chrome/src/background.js).                                         *)
(*                                                                         *)
(* JavaScript runs every handler to completion: an action of this model is *)
(* one handler run up to its next suspension point (an await on a network  *)
(* request, a launched web-auth flow, a storage write).  A promise that is *)
(* resolved inside a handler has its continuation run before any other     *)
(* callback, so the continuation is part of the same action.               *)
(***************************************************************************)
EXTENDS Integers, Sequences, FiniteSets, TLC

VARIABLES
    is_authorized,   \* this.is_authorized
    access_token,    \* this.access_token
    id_token,        \* this.id_token
    current_nonce,   \* this.current_nonce
    user,            \* this.user
    store,           \* chrome.storage.sync
    badge,           \* chrome.browserAction badge text
    flows,           \* launched web-auth flows whose callback has not run
    fmcs,            \* suspended executions of fetch_message_count
    auths,           \* executions of finish_auth awaiting the /me response
    writes,          \* chrome.storage.sync.set calls not yet completed
    attempts,        \* number of authorize() calls so far
    nextFmc,         \* number of fetch_message_count executions started + 1
    ticks,           \* number of alarms fired
    clicks,          \* number of badge clicks
    mailReqs,        \* history: mail-folder requests issued, per origin
    silentAuths,     \* history: authorize(false) calls, per origin
    event,           \* history: the handler that ran last, with its inputs
    arg,             \* the input of a single call of a function
    ret              \* what that call returned

vars == <<is_authorized, access_token, id_token, current_nonce, user, store,
          badge, flows, fmcs, auths, writes, attempts, nextFmc, ticks, clicks,
          mailReqs, silentAuths, event, arg, ret>>

session == <<is_authorized, access_token, id_token, current_nonce, user>>

call == <<arg, ret>>

\* ---------------------------------------------------------------- bounds
MaxTicks    == 1
MaxClicks   == 1
MaxAttempts == 3
MaxFmc      == 2

\* ------------------------------------------------------------- constants
Null      == "null"
Undefined == "undefined"

ClientId     == "client_id"
OtherAud     == "other_client"
ConsumerTid  == "9188040d-6c67-4c5b-b112-36a304b66dad"
OrgTid       == "72f988bf-0000-0000-0000-000000000000"
SkewSeconds  == 300
ApiEndpoint  == "https://outlook.office.com/api/v2.0"
AuthUrl      == "https://login.microsoftonline.com/common/oauth2/v2.0/authorize?"
RedirectUrl  == "https%3A%2F%2Fextension.chromiumapp.org%2Fcallback"
Scopes       == "openid%20profile%20https%3A%2F%2Foutlook.office.com%2Fmail.read"

mail_folders_url == <<ApiEndpoint, "/me/MailFolders?">>
me_url           == <<ApiEndpoint, "/me">>

\* An origin names what started a chain of handlers: 0 is a badge click,
\* t >= 1 is the t-th alarm.
Origins == 0..MaxTicks

\* ---------------------------------------------------------------- tokens
\* A value of the id_token / access_token kind.  "null" and "undefined" are
\* the JavaScript values; "str" is a string with the given number of
\* period-separated parts whose payload decodes to the given claims.
NullTok  == [kind |-> "null"]
UndefTok == [kind |-> "undefined"]
EmptyTok == [kind |-> "str", parts |-> 1, length |-> 0]

Issuer(tid) == <<"https://login.microsoftonline.com/", tid, "/v2.0">>

Jwt(nonce, aud, tid, iss, nbf, exp) ==
    [kind |-> "str", parts |-> 3, length |-> 100,
     nonce |-> nonce, aud |-> aud, tid |-> tid, iss |-> iss,
     nbf |-> nbf, exp |-> exp,
     name |-> "Display Name", preferred_username |-> "user@example.com"]

Malformed == [kind |-> "str", parts |-> 2, length |-> 50]

AccessTok == [kind |-> "str", parts |-> 1, length |-> 20, text |-> "AT"]
Str(s)    == [kind |-> "str", parts |-> 1, length |-> 1, text |-> s]

\* jwt_decode (external library): the claims of the payload segment.  Every
\* three-part token of this model has a payload that decodes.
jwt_decode(token) == token

\* ------------------------------------------------------- pure functions
\* create_nonce: 128 random bits as hex text.  Under the assumption that the
\* generated values are pairwise distinct, the k-th value generated is
\* modelled by the text of k.
create_nonce(k) == ToString(k)

\* Object.assign( query, {key: value} ): replaces the value of an existing
\* key in place, appends a new key at the end.
RECURSIVE Assign(_, _, _)
Assign(query, key, value) ==
    IF query = <<>> THEN << <<key, value>> >>
    ELSE IF Head(query)[1] = key THEN << <<key, value>> >> \o Tail(query)
    ELSE << Head(query) >> \o Assign(Tail(query), key, value)

\* The value of a key of an object, `undefined` when the key is absent.
RECURSIVE Get(_, _, _)
Get(obj, key, undef) ==
    IF obj = <<>> THEN undef
    ELSE IF obj[Len(obj)][1] = key THEN obj[Len(obj)][2]
    ELSE Get(SubSeq(obj, 1, Len(obj) - 1), key, undef)

\* generate_request_url: a URL is the sequence of the texts concatenated.
RECURSIVE AppendKeys(_, _, _)
AppendKeys(url, query_data, last) ==
    IF query_data = <<>> THEN url
    ELSE LET key == Head(query_data)[1]
             sep == IF key = last THEN "" ELSE "&"
         IN  AppendKeys(url \o <<key, "=", Head(query_data)[2], sep>>,
                        Tail(query_data), last)

generate_request_url(url, query_data) ==
    IF query_data = <<>> THEN url
    ELSE AppendKeys(url, query_data, query_data[Len(query_data)][1])

\* parse_auth_response: the text after '#', split on '&' and '='.  A redirect
\* URL is [base, fragment], the fragment a sequence of <<key, value>>; the
\* values are not decoded.  A later key overrides an earlier one.
parse_auth_response(response) ==
    [id_token      |-> Get(response.fragment, "id_token", UndefTok),
     access_token  |-> Get(response.fragment, "access_token", UndefTok),
     error_message |-> Get(response.fragment, "error_message", UndefTok)]

\* A plausible slip: a token is rejected at the very start of its window.
validate_id_token_StrictNotBefore(token, nonce, now) ==
    IF token.kind # "str" \/ token.length = 0 THEN FALSE
    ELSE IF token.parts # 3 THEN FALSE
    ELSE LET decoded   == jwt_decode(token)
             notBefore == (decoded.nbf - SkewSeconds) * 1000
             expires   == (decoded.exp + SkewSeconds) * 1000
         IN  IF decoded.nonce # nonce THEN FALSE
             ELSE IF decoded.aud # ClientId THEN FALSE
             ELSE IF decoded.iss # Issuer(decoded.tid) THEN FALSE
             ELSE IF now <= notBefore \/ now > expires THEN FALSE
             ELSE TRUE

\* A plausible slip: the audience of the token is not checked.
validate_id_token_NoAudience(token, nonce, now) ==
    IF token.kind # "str" \/ token.length = 0 THEN FALSE
    ELSE IF token.parts # 3 THEN FALSE
    ELSE LET decoded   == jwt_decode(token)
             notBefore == (decoded.nbf - SkewSeconds) * 1000
             expires   == (decoded.exp + SkewSeconds) * 1000
         IN  IF decoded.nonce # nonce THEN FALSE
             ELSE IF decoded.iss # Issuer(decoded.tid) THEN FALSE
             ELSE IF now < notBefore \/ now > expires THEN FALSE
             ELSE TRUE

\* validate_id_token, the returned boolean.  `now` is in milliseconds, nbf
\* and exp are in seconds.
validate_id_token(token, nonce, now) ==
    IF token.kind # "str" \/ token.length = 0 THEN FALSE
    ELSE IF token.parts # 3 THEN FALSE
    ELSE LET decoded   == jwt_decode(token)
             notBefore == (decoded.nbf - SkewSeconds) * 1000
             expires   == (decoded.exp + SkewSeconds) * 1000
         IN  IF decoded.nonce # nonce THEN FALSE
             ELSE IF decoded.aud # ClientId THEN FALSE
             ELSE IF decoded.iss # Issuer(decoded.tid) THEN FALSE
             ELSE IF now < notBefore \/ now > expires THEN FALSE
             ELSE TRUE

\* A plausible slip: the profile is written as soon as the token is decoded,
\* before the checks.
validate_id_token_user_Early(u, token, nonce, now) ==
    IF token.kind = "str" /\ token.length # 0 /\ token.parts = 3
    THEN LET decoded == jwt_decode(token)
         IN  [u EXCEPT !.display_name = decoded.name,
                       !.signin_name  = decoded.preferred_username,
                       !.domain_type  = IF decoded.tid = ConsumerTid
                                        THEN "consumers" ELSE "organizations"]
    ELSE u

\* validate_id_token, its effect on this.user.
validate_id_token_user(u, token, nonce, now) ==
    IF validate_id_token(token, nonce, now)
    THEN LET decoded == jwt_decode(token)
         IN  [u EXCEPT !.display_name = decoded.name,
                       !.signin_name  = decoded.preferred_username,
                       !.domain_type  = IF decoded.tid = ConsumerTid
                                        THEN "consumers" ELSE "organizations"]
    ELSE u

\* A plausible slip: the Archive folder is counted like the others.
RECURSIVE calculate_total_unread_messages_WithArchive(_)
calculate_total_unread_messages_WithArchive(mail_folders) ==
    IF mail_folders = <<>> THEN 0
    ELSE Head(mail_folders).UnreadItemCount
         + calculate_total_unread_messages_WithArchive(Tail(mail_folders))

\* calculate_total_unread_messages
RECURSIVE calculate_total_unread_messages(_)
calculate_total_unread_messages(mail_folders) ==
    IF mail_folders = <<>> THEN 0
    ELSE LET folder == Head(mail_folders)
         IN  (IF folder.DisplayName = "Archive" THEN 0
              ELSE folder.UnreadItemCount)
             + calculate_total_unread_messages(Tail(mail_folders))

\* A plausible slip: nine is shown as "9+" already.
update_status_badge_FromNine(count) ==
    LET text == IF count > 0 THEN ToString(count) ELSE ""
    IN  IF count >= 9 THEN "9+" ELSE text

\* update_status_badge: the text handed to setBadgeText.
update_status_badge(count) ==
    LET text == IF count > 0 THEN ToString(count) ELSE ""
    IN  IF count > 9 THEN "9+" ELSE text

\* make_remote_request: the request handed to fetch.
NoBody == [kind |-> "null"]
Body(query) == [kind |-> "object", value |-> query]

make_remote_request(url, body, token, email) ==
    [method        |-> IF body # NoBody THEN "POST" ELSE "GET",
     url           |-> url,
     body          |-> body,
     Authorization |-> token,
     AnchorMailbox |-> IF email \notin {Undefined, Null, ""} THEN email
                       ELSE Undefined]

\* response.ok
Ok(status) == status >= 200 /\ status <= 299

Truthy(v) == v \notin {Undefined, Null, ""}

\* A plausible slip: every failed response is taken for an expired token.
TokenExpired_AnyFailure(response) == ~Ok(response.status)

\* fetch_message_count: `! response.ok && response.status < 500`
TokenExpired(response) == ~Ok(response.status) /\ response.status < 500

\* A plausible slip: the address is taken from the response whatever its
\* status.
ProfileEmail_Unchecked(u, response) ==
    [u EXCEPT !.email = response.EmailAddress]

\* finish_auth: `if ( result.ok ) { this.user.email = result.EmailAddress }`
ProfileEmail(u, response) ==
    IF Ok(response.status)
    THEN [u EXCEPT !.email = response.EmailAddress]
    ELSE u

\* ------------------------------------------------------------ authorize
\* The query built by the k-th call of authorize (k counted from 0).
AuthQuery(interactive, u, k) ==
    LET query == << <<"client_id", ClientId>>,
                    <<"redirect_uri", RedirectUrl>>,
                    <<"response_type", "id_token%20token">>,
                    <<"scope", Scopes>>,
                    <<"response_mode", "fragment">>,
                    <<"nonce", create_nonce(2 * k + 1)>>,
                    <<"state", create_nonce(2 * k + 2)>> >>
        hinted == Assign(Assign(query, "domain_hint", u.domain_type),
                         "login_hint", u.signin_name)
    IN  IF ~interactive
        THEN Assign(Assign(Assign(Assign(query,
                 "response_type", "token"),
                 "prompt", "none"),
                 "domain_hint", u.domain_type),
                 "login_hint", u.signin_name)
        ELSE IF Truthy(u.domain_type) /\ Truthy(u.signin_name)
        THEN hinted
        ELSE query

\* The web-auth flow launched by the k-th call of authorize.  `waiter` is the
\* execution of fetch_message_count awaiting the returned promise (0: the
\* promise is dropped by the caller), `parent` the nonce of the attempt whose
\* finish_auth made the call (Null: none), `depth` the position of the flow
\* in the chain of its first ancestor, `starter` the execution of
\* fetch_message_count that made the first call of the chain (0: a click),
\* `origin` what started the chain.
authorize(interactive, u, k, waiter, parent, depth, starter, origin) ==
    LET query == AuthQuery(interactive, u, k)
    IN  [nonce       |-> Get(query, "nonce", Undefined),
         interactive |-> interactive,
         query       |-> query,
         url         |-> generate_request_url(<<AuthUrl>>, query),
         waiter      |-> waiter,
         parent      |-> parent,
         depth       |-> depth,
         starter     |-> starter,
         origin      |-> origin]

\* ---------------------------------------------------- fetch_message_count
MailQuery == << <<"$filter", "UnreadItemCount%20gt%200">>, <<"$top", "50">> >>

\* A plausible slip: the check of is_authorized is missing.
fetch_message_count_Unguarded(authorized, token, u, id, origin) ==
    LET query == MailQuery
        url   == generate_request_url(mail_folders_url, query)
    IN  {[id     |-> id,
          pc     |-> "first",
          origin |-> origin,
          query  |-> query,
          url    |-> url,
          req    |-> make_remote_request(url, NoBody, token, u.email)]}

\* fetch_message_count up to its first await: the executions it adds.
fetch_message_count(authorized, token, u, id, origin) ==
    IF ~authorized THEN {}
    ELSE LET query == MailQuery
             url   == generate_request_url(mail_folders_url, query)
         IN  {[id     |-> id,
               pc     |-> "first",
               origin |-> origin,
               query  |-> query,
               url    |-> url,
               req    |-> make_remote_request(url, NoBody, token, u.email)]}

\* The continuation of fetch_message_count after `await this.authorize()`:
\* the retried request.
Retry(p, token, u) ==
    [p EXCEPT !.pc  = "retry",
              !.req = make_remote_request(mail_folders_url, Body(p.query),
                                          token, u.email)]

\* A plausible slip: finish_auth returns without calling callback.
Resolved_Dropped(procs, waiter, token, u) == procs

\* callback(): resolves the promise of authorize; the execution awaiting it
\* (if any) continues with the retried request.
Resolved(procs, waiter, token, u) ==
    {IF p.id = waiter /\ p.pc = "authorize" THEN Retry(p, token, u) ELSE p
        : p \in procs}

Bump(counter, origin) == [counter EXCEPT ![origin] = @ + 1]

\* A plausible slip: the promise of authorize is not awaited, the execution
\* goes on to the retried request at once.
AwaitAuthorize_NotAwaited(p, token, u) == Retry(p, token, u)

\* `await this.authorize( interactive )`: the execution is suspended until
\* the promise is resolved.
AwaitAuthorize(p, token, u) == [p EXCEPT !.pc = "authorize"]

\* A plausible slip: the escalation repeats the mode of the failed attempt.
Escalate_SameMode(f, u, k) ==
    authorize(f.interactive, u, k, 0, f.nonce, f.depth + 1, f.starter,
              f.origin)

\* finish_auth, validation failed on a non-interactive attempt:
\* `this.authorize()`, whose promise is dropped.
Escalate(f, u, k) ==
    authorize(TRUE, u, k, 0, f.nonce, f.depth + 1, f.starter, f.origin)

\* ------------------------------------------------------- the environment
Nbf == 1000
Exp == 2000
Times == {(Nbf - SkewSeconds) * 1000, (Exp + SkewSeconds) * 1000 + 1}

GoodJwt(nonce) ==
    Jwt(nonce, ClientId, ConsumerTid, Issuer(ConsumerTid), Nbf, Exp)

IssuedNonces == {create_nonce(2 * k + 1) : k \in 0..(attempts - 1)}

\* What the identity provider answers to a request that it grants: the
\* tokens named by response_type, and the state.
Grant(f) ==
    LET rt == Get(f.query, "response_type", Undefined)
        st == << <<"state", Str(Get(f.query, "state", Undefined))>> >>
    IN  IF rt = "token"
        THEN << <<"access_token", AccessTok>> >> \o st
        ELSE << <<"access_token", AccessTok>>,
                <<"id_token", GoodJwt(Get(f.query, "nonce", Undefined))>> >>
             \o st

\* The redirect URLs a flow may come back with: the provider's grant, the
\* provider's error, and redirects carrying any id token issued so far
\* (replayed or misdirected), with or without an access token, or a token
\* that is not valid for this client.
Fragments(f) ==
    {Grant(f)}
    \cup {<< <<"error", Str("interaction_required")>>,
             <<"error_description", Str("AADSTS50058")>> >>}
    \cup {<< <<"access_token", AccessTok>>, <<"id_token", GoodJwt(n)>> >>
            : n \in IssuedNonces}
    \cup {<< <<"id_token", GoodJwt(f.nonce)>> >>}
    \cup {<< <<"access_token", AccessTok>>, <<"id_token", t>> >>
            : t \in {Malformed,
                     Jwt(f.nonce, OtherAud, ConsumerTid,
                         Issuer(ConsumerTid), Nbf, Exp),
                     Jwt(f.nonce, ClientId, OrgTid,
                         Issuer(ConsumerTid), Nbf, Exp)}}

\* The results handed to the callback of launchWebAuthFlow:
\* chrome.runtime.lastError set, or a redirect URL.
Results(f) ==
    {[lastError |-> TRUE, url |-> [base |-> RedirectUrl, fragment |-> <<>>]]}
    \cup {[lastError |-> FALSE,
           url |-> [base |-> RedirectUrl, fragment |-> fr]]
            : fr \in Fragments(f)}

Statuses == {200, 401, 500}

FolderLists ==
    {<<>>,
     <<[DisplayName |-> "Archive", UnreadItemCount |-> 5],
       [DisplayName |-> "Inbox",   UnreadItemCount |-> 3],
       [DisplayName |-> "Sent",    UnreadItemCount |-> 0]>>,
     <<[DisplayName |-> "Inbox",   UnreadItemCount |-> 12]>>}

MailResponses ==
    {[status |-> 200, value |-> v] : v \in FolderLists}
    \cup {[status |-> st, value |-> <<>>] : st \in Statuses \ {200}}

MeResponses ==
    {[status |-> 200, EmailAddress |-> "user@outlook.com"],
     [status |-> 500, EmailAddress |-> Undefined]}

\* ------------------------------------------------------------------ Init
None == [fn |-> "none"]

\* constructor, then initialize with an empty store: the defaults.
NoUser == [display_name |-> Undefined, signin_name |-> Undefined,
           domain_type |-> Undefined, email |-> Undefined]

SyncData(at, it, u, nonce, authorized) ==
    [access_token |-> at, id_token |-> it, user |-> u,
     current_nonce |-> nonce, is_authorized |-> authorized]

Init ==
    /\ is_authorized = FALSE
    /\ access_token = NullTok
    /\ id_token = NullTok
    /\ current_nonce = Null
    /\ user = NoUser
    /\ store = SyncData(NullTok, NullTok, NoUser, Null, FALSE)
    /\ badge = ""
    /\ flows = {}
    /\ fmcs = {}
    /\ auths = {}
    /\ writes = <<>>
    /\ attempts = 0
    /\ nextFmc = 1
    /\ ticks = 0
    /\ clicks = 0
    /\ mailReqs = [o \in Origins |-> 0]
    /\ silentAuths = [o \in Origins |-> 0]
    /\ event = [op |-> "init"]
    /\ arg = None
    /\ ret = None

\* --------------------------------------------------------------- actions
\* The alarm fires: fetch_message_count up to its first await.
Tick ==
    /\ ticks < MaxTicks
    /\ is_authorized => nextFmc <= MaxFmc
    /\ ticks' = ticks + 1
    /\ LET new == fetch_message_count(is_authorized, access_token, user,
                                      nextFmc, ticks + 1)
       IN  /\ fmcs' = fmcs \cup new
           /\ nextFmc' = nextFmc + Cardinality(new)
           /\ mailReqs' = IF new = {} THEN mailReqs
                          ELSE Bump(mailReqs, ticks + 1)
    /\ event' = [op |-> "tick", origin |-> ticks + 1]
    /\ UNCHANGED <<session, store, badge, flows, auths, writes, attempts,
                   clicks, silentAuths, call>>

\* onClicked
Click ==
    /\ clicks < MaxClicks
    /\ clicks' = clicks + 1
    /\ IF ~is_authorized
       THEN /\ attempts < MaxAttempts
            /\ LET f == authorize(TRUE, user, attempts, 0, Null, 1, 0, 0)
               IN  /\ current_nonce' = f.nonce
                   /\ flows' = flows \cup {f}
            /\ attempts' = attempts + 1
       ELSE UNCHANGED <<current_nonce, flows, attempts>>
    /\ event' = [op |-> "click"]
    /\ UNCHANGED <<is_authorized, access_token, id_token, user, store, badge,
                   fmcs, auths, writes, nextFmc, ticks, mailReqs,
                   silentAuths, call>>

\* The response to a mail-folder request arrives: fetch_message_count from
\* the await of make_remote_request to its next await or its end.
MailResponse(p, response) ==
    /\ p \in fmcs
    /\ p.pc \in {"first", "retry"}
    /\ event' = [op |-> "mail_response", fmc |-> p, response |-> response]
    /\ IF p.pc = "first" /\ TokenExpired(response)
       THEN \* Token is expired. Re-authorize.
            /\ attempts < MaxAttempts
            /\ LET f == authorize(FALSE, user, attempts, p.id, Null, 1,
                                  p.id, p.origin)
               IN  /\ current_nonce' = f.nonce
                   /\ flows' = flows \cup {f}
            /\ attempts' = attempts + 1
            /\ silentAuths' = Bump(silentAuths, p.origin)
            /\ fmcs' = (fmcs \ {p})
                       \cup {AwaitAuthorize(p, access_token, user)}
            /\ badge' = badge
       ELSE /\ fmcs' = fmcs \ {p}
            /\ badge' = IF ~Ok(response.status) THEN badge
                        ELSE update_status_badge(
                                 calculate_total_unread_messages(
                                     response.value))
            /\ UNCHANGED <<current_nonce, flows, attempts, silentAuths>>
    /\ UNCHANGED <<is_authorized, access_token, id_token, user, store, auths,
                   writes, nextFmc, ticks, clicks, mailReqs, call>>

\* The callback of launchWebAuthFlow runs: finish_auth up to its await of
\* the /me request, or to its end.
FinishAuth(f, result, now) ==
    /\ f \in flows
    /\ event' = [op |-> "finish_auth", flow |-> f, result |-> result,
                 now |-> now]
    /\ IF result.lastError
       THEN \* return callback()
            /\ flows' = flows \ {f}
            /\ fmcs' = Resolved(fmcs, f.waiter, access_token, user)
            /\ mailReqs' = IF \E p \in fmcs : p.id = f.waiter
                           THEN Bump(mailReqs, f.origin) ELSE mailReqs
            /\ UNCHANGED <<session, auths, attempts>>
       ELSE LET parsed == parse_auth_response(result.url)
            IN  IF ~validate_id_token(parsed.id_token, current_nonce, now)
                THEN /\ user' = validate_id_token_user(user, parsed.id_token,
                                                       current_nonce, now)
                     /\ IF ~f.interactive
                        THEN \* Try interactive auth flow
                             /\ attempts < MaxAttempts
                             /\ LET g == Escalate(f, user', attempts)
                                IN  /\ current_nonce' = g.nonce
                                    /\ flows' = (flows \ {f}) \cup {g}
                             /\ attempts' = attempts + 1
                        ELSE /\ flows' = flows \ {f}
                             /\ UNCHANGED <<current_nonce, attempts>>
                     /\ UNCHANGED <<is_authorized, access_token, id_token,
                                    fmcs, auths, mailReqs>>
                ELSE /\ user' = validate_id_token_user(user, parsed.id_token,
                                                       current_nonce, now)
                     /\ id_token' = parsed.id_token
                     /\ access_token' = parsed.access_token
                     /\ is_authorized' = TRUE
                     /\ flows' = flows \ {f}
                     /\ auths' = auths \cup
                          {[nonce       |-> f.nonce,
                            interactive |-> f.interactive,
                            waiter      |-> f.waiter,
                            starter     |-> f.starter,
                            origin      |-> f.origin,
                            req         |-> make_remote_request(me_url,
                                                NoBody, parsed.access_token,
                                                user.email)]}
                     /\ UNCHANGED <<current_nonce, fmcs, attempts, mailReqs>>
    /\ UNCHANGED <<store, badge, writes, nextFmc, ticks, clicks, silentAuths,
                   call>>

\* The response to the /me request arrives: finish_auth from its await to
\* its end.
MeResponse(a, response) ==
    /\ a \in auths
    /\ auths' = auths \ {a}
    /\ user' = ProfileEmail(user, response)
    /\ writes' = Append(writes,
                        [data   |-> SyncData(access_token, id_token, user',
                                             current_nonce, is_authorized),
                         origin |-> a.origin])
    \* return callback()
    /\ fmcs' = Resolved(fmcs, a.waiter, access_token, user')
    /\ mailReqs' = IF \E p \in fmcs : p.id = a.waiter
                   THEN Bump(mailReqs, a.origin) ELSE mailReqs
    /\ event' = [op |-> "me_response", auth |-> a, response |-> response]
    /\ UNCHANGED <<is_authorized, access_token, id_token, current_nonce,
                   store, badge, flows, attempts, nextFmc, ticks, clicks,
                   silentAuths, call>>

\* A chrome.storage.sync.set completes (the writes complete in the order
\* of the calls): the store holds the data and the callback runs
\* fetch_message_count up to its first await.
StorageDone ==
    /\ writes # <<>>
    /\ is_authorized => nextFmc <= MaxFmc
    /\ LET w   == Head(writes)
           new == fetch_message_count(is_authorized, access_token, user,
                                      nextFmc, w.origin)
       IN  /\ store' = w.data
           /\ fmcs' = fmcs \cup new
           /\ nextFmc' = nextFmc + Cardinality(new)
           /\ mailReqs' = IF new = {} THEN mailReqs
                          ELSE Bump(mailReqs, w.origin)
           /\ event' = [op |-> "storage_done", write |-> w]
    /\ writes' = Tail(writes)
    /\ UNCHANGED <<session, badge, flows, auths, attempts, ticks, clicks,
                   silentAuths, call>>

Next ==
    \/ Tick
    \/ Click
    \/ \E p \in fmcs, response \in MailResponses : MailResponse(p, response)
    \/ \E f \in flows : \E result \in Results(f), now \in Times :
          FinishAuth(f, result, now)
    \/ \E a \in auths, response \in MeResponses : MeResponse(a, response)
    \/ StorageDone

Spec == Init /\ [][Next]_vars

TypeOK ==
    /\ is_authorized \in BOOLEAN
    /\ attempts \in 0..MaxAttempts
    /\ nextFmc \in 1..(MaxFmc + 1)
    /\ ticks \in 0..MaxTicks
    /\ clicks \in 0..MaxClicks

\* ===================================================================
\* Single calls of the functions, on inputs drawn from bounded sets
\* ===================================================================
MaxFolders == 3
MaxCount   == 12

FourParts == [kind |-> "str", parts |-> 4, length |-> 120]

CallTokens ==
    {UndefTok, NullTok, EmptyTok, Malformed, FourParts}
    \cup {Jwt(n, a, t, i, Nbf, Exp) :
            n \in {create_nonce(1), create_nonce(3)},
            a \in {ClientId, OtherAud},
            t \in {ConsumerTid, OrgTid},
            i \in {Issuer(ConsumerTid), Issuer(OrgTid)}}

CallTimes ==
    {(Nbf - SkewSeconds) * 1000 - 1, (Nbf - SkewSeconds) * 1000,
     Nbf * 1000,
     (Exp + SkewSeconds) * 1000, (Exp + SkewSeconds) * 1000 + 1}

Folders ==
    [DisplayName : {"Archive", "Inbox", "Sent"}, UnreadItemCount : {0, 3, 5}]

RECURSIVE FolderListsUpTo(_)
FolderListsUpTo(n) ==
    IF n = 0 THEN {<<>>}
    ELSE LET shorter == FolderListsUpTo(n - 1)
         IN  shorter \cup {Append(l, f) : l \in shorter, f \in Folders}

CallArgs ==
    {[fn |-> "validate_id_token", token |-> t, now |-> n] :
        t \in CallTokens, n \in CallTimes}
    \cup {[fn |-> "calculate_total_unread_messages", folders |-> l] :
            l \in FolderListsUpTo(MaxFolders)}
    \cup {[fn |-> "update_status_badge", count |-> c] : c \in 0..MaxCount}

\* A profile left by an earlier authorization.
PriorUser == [display_name |-> "Earlier Name",
              signin_name  |-> "earlier@example.com",
              domain_type  |-> "organizations",
              email        |-> "earlier@outlook.com"]

\* The session right after authorize has generated its nonce, with or
\* without an earlier profile.
CallInit ==
    /\ is_authorized = FALSE
    /\ access_token = NullTok
    /\ id_token = NullTok
    /\ current_nonce = create_nonce(1)
    /\ user \in {NoUser, PriorUser}
    /\ store = SyncData(NullTok, NullTok, NoUser, Null, FALSE)
    /\ badge = ""
    /\ flows = {}
    /\ fmcs = {}
    /\ auths = {}
    /\ writes = <<>>
    /\ attempts = 1
    /\ nextFmc = 1
    /\ ticks = 0
    /\ clicks = 0
    /\ mailReqs = [o \in Origins |-> 0]
    /\ silentAuths = [o \in Origins |-> 0]
    /\ event = [op |-> "init"]
    /\ arg \in CallArgs
    /\ ret = None

\* validate_id_token( token )
CallValidate ==
    /\ arg.fn = "validate_id_token"
    /\ ret = None
    /\ ret' = [fn    |-> arg.fn,
               value |-> validate_id_token(arg.token, current_nonce, arg.now)]
    /\ user' = validate_id_token_user(user, arg.token, current_nonce, arg.now)
    /\ UNCHANGED <<is_authorized, access_token, id_token, current_nonce,
                   store, badge, flows, fmcs, auths, writes, attempts,
                   nextFmc, ticks, clicks, mailReqs, silentAuths, event, arg>>

\* The end of fetch_message_count: the total of the folders of the response
\* is handed to update_status_badge.
CallTotal ==
    /\ arg.fn = "calculate_total_unread_messages"
    /\ ret = None
    /\ LET count == calculate_total_unread_messages(arg.folders)
       IN  /\ ret' = [fn |-> arg.fn, value |-> count]
           /\ badge' = update_status_badge(count)
    /\ UNCHANGED <<session, store, flows, fmcs, auths, writes, attempts,
                   nextFmc, ticks, clicks, mailReqs, silentAuths, event, arg>>

\* update_status_badge( count )
CallBadge ==
    /\ arg.fn = "update_status_badge"
    /\ ret = None
    /\ ret' = [fn |-> arg.fn, value |-> Undefined]
    /\ badge' = update_status_badge(arg.count)
    /\ UNCHANGED <<session, store, flows, fmcs, auths, writes, attempts,
                   nextFmc, ticks, clicks, mailReqs, silentAuths, event, arg>>

CallNext ==
    \/ CallValidate
    \/ CallTotal
    \/ CallBadge

CallSpec == CallInit /\ [][CallNext]_vars

\* ===================================================================
\* Properties
\* ===================================================================

\* The step just taken ran finish_auth on a redirect URL (not on lastError).
FinishedAuth == event.op = "finish_auth" /\ ~event.result.lastError

\* finish_auth accepted the id token of the attempt: its /me request is in
\* flight.
Accepted(nonce) == \E a \in auths : a.nonce = nonce

\* Something of the attempt chain started by execution `id` of
\* fetch_message_count is still in flight.
InProgress(id) ==
    \/ \E f \in flows : f.starter = id
    \/ \E a \in auths : a.starter = id

\* C1: when the provider grants a silent reauthorization started by a poll
\* with exactly the tokens the request asks for, the attempt is accepted, no
\* interactive flow is launched for it, and a retried request answered 200
\* with 12 unread messages sets the badge to "9+".
C1_SilentGrantSucceeds ==
    /\ (/\ FinishedAuth
        /\ ~event.flow.interactive
        /\ event.flow.waiter # 0
        /\ event.result.url.fragment = Grant(event.flow))
       => /\ Accepted(event.flow.nonce)
          /\ ~\E g \in flows : g.parent = event.flow.nonce
    /\ (/\ event.op = "mail_response"
        /\ event.fmc.pc = "retry"
        /\ event.response.status = 200
        /\ calculate_total_unread_messages(event.response.value) = 12)
       => badge = "9+"

\* C2: whenever id-token validation fails on an interactive attempt, the
\* session is unauthorized afterwards and the badge text is unchanged.
C2_InteractiveFailureUnauthorizes ==
    [][(/\ event'.op = "finish_auth"
        /\ ~event'.result.lastError
        /\ event'.flow.interactive
        /\ ~validate_id_token(parse_auth_response(event'.result.url).id_token,
                              current_nonce, event'.now))
       => (~is_authorized' /\ badge' = badge)]_vars

\* C3: the retried mail-folder request of an execution of
\* fetch_message_count is in flight only when nothing of the
\* reauthorization attempt that execution started is still in flight.
C3_RetryAfterReauth ==
    \A p \in fmcs : p.pc = "retry" => ~InProgress(p.id)

C3_Witness ==
    /\ event.op \in {"finish_auth", "me_response"}
    /\ \E p \in fmcs : p.pc = "retry" /\ ~InProgress(p.id)

\* C4: a reauthorization attempt started by fetch_message_count always
\* completes with its promise resolved: once nothing of the attempt is in
\* flight any more, the execution is no longer awaiting it.
C4_AttemptEndResolves ==
    \A p \in fmcs : p.pc = "authorize" => InProgress(p.id)

\* C5: one timer tick causes at most two mail-folder requests and at most
\* one silent reauthorization.
C5_OneRetryPerTick ==
    \A t \in 1..MaxTicks : mailReqs[t] <= 2 /\ silentAuths[t] <= 1

\* C6: the retried request is the first request again: GET, the URL with
\* the $filter and $top parameters, no body.
C6_RetrySameRequest ==
    \A p \in fmcs :
        p.pc = "retry" =>
            /\ p.req.method = "GET"
            /\ p.req.url = p.url
            /\ p.req.body = NoBody

\* C7: at most one operation of the session (mail-folder request, profile
\* request, web-auth flow) is in flight at any time.
InFlight ==
    Cardinality(flows) + Cardinality(auths)
    + Cardinality({p \in fmcs : p.pc \in {"first", "retry"}})

C7_OneOperationInFlight == InFlight <= 1

\* C8: every id token that finish_auth accepts carries the nonce generated
\* by the attempt whose redirect response delivered it.
C8_AcceptedNonceIsOwn ==
    (FinishedAuth /\ Accepted(event.flow.nonce))
        => jwt_decode(id_token).nonce = event.flow.nonce

\* C9: access_token and id_token are both set or both null.
C9_TokensTogether ==
    \/ access_token = NullTok /\ id_token = NullTok
    \/ access_token.kind = "str" /\ id_token.kind = "str"

\* C10: when validation fails on a non-interactive attempt, exactly one
\* attempt is started and it is interactive; when validation fails on an
\* interactive attempt, none is started; a chain holds at most two flows.
C10_OneEscalation ==
    [][(/\ event'.op = "finish_auth"
        /\ ~event'.result.lastError
        /\ ~validate_id_token(parse_auth_response(event'.result.url).id_token,
                              current_nonce, event'.now))
       => IF event'.flow.interactive
          THEN attempts' = attempts /\ flows' = flows \ {event'.flow}
          ELSE /\ attempts' = attempts + 1
               /\ \E g \in flows' :
                     /\ g \notin flows
                     /\ flows' = (flows \ {event'.flow}) \cup {g}
                     /\ g.interactive
                     /\ g.parent = event'.flow.nonce
                     /\ g.depth <= 2]_vars

\* Validation has failed on the interactive attempt an escalation started.
C10_Witness ==
    /\ FinishedAuth
    /\ event.flow.interactive
    /\ event.flow.depth = 2
    /\ ~Accepted(event.flow.nonce)
    /\ ~\E g \in flows : g.parent = event.flow.nonce

\* The fields of the session other than current_nonce, and the store.
Kept ==
    /\ is_authorized' = is_authorized
    /\ access_token' = access_token
    /\ id_token' = id_token
    /\ user' = user
    /\ store' = store

\* C11: while the session is not authorized, a timer fire issues no network
\* request, starts no authorization flow, and leaves the session, the store
\* and the badge unchanged.
C11_UnauthorizedTickIsNoOp ==
    [][(event'.op = "tick" /\ ~is_authorized)
       => /\ fmcs' = fmcs
          /\ auths' = auths
          /\ flows' = flows
          /\ attempts' = attempts
          /\ mailReqs' = mailReqs
          /\ writes' = writes
          /\ session' = session
          /\ store' = store
          /\ badge' = badge]_vars

C11_Witness ==
    /\ event.op = "tick"
    /\ ~is_authorized
    /\ fmcs = {}

\* C12: when the web-auth flow reports a failure, the promise of authorize
\* is resolved (the execution awaiting it goes on), is_authorized, the
\* tokens, the user profile and the store are as before the attempt, and no
\* profile request, store write or new fetch_message_count is started.  The
\* call of authorize that launched the attempt left those fields alone too.
C12_FlowFailureLeavesSession ==
    [][/\ attempts' # attempts => Kept
       /\ (event'.op = "finish_auth" /\ event'.result.lastError)
          => /\ Kept
             /\ flows' = flows \ {event'.flow}
             /\ auths' = auths
             /\ writes' = writes
             /\ nextFmc' = nextFmc
             /\ ~\E p \in fmcs' :
                   p.id = event'.flow.waiter /\ p.pc = "authorize"]_vars

\* A cancelled reauthorization whose awaiting execution has gone on to its
\* retry.
C12_Witness ==
    /\ event.op = "finish_auth"
    /\ event.result.lastError
    /\ \E p \in fmcs : p.id = event.flow.waiter /\ p.pc = "retry"

\* The four checks of validate_id_token, stated on the claims of the token.
NonceHolds(t, nonce) == t.nonce = nonce
AudienceHolds(t)     == t.aud = ClientId
IssuerHolds(t)       == t.iss = <<"https://login.microsoftonline.com/",
                                 t.tid, "/v2.0">>
TimeHolds(t, now)    == /\ (t.nbf - 300) * 1000 <= now
                        /\ now <= (t.exp + 300) * 1000

ValidateReturned == ret.fn = "validate_id_token"

\* C13: for every three-segment token, validate_id_token returns true if and
\* only if the nonce, the audience, the issuer and the time window (closed,
\* 300 s of allowance on both ends) all hold.
C13_ValidIffFourChecks ==
    (ValidateReturned /\ arg.token.kind = "str" /\ arg.token.parts = 3)
        => (ret.value <=> /\ NonceHolds(arg.token, current_nonce)
                          /\ AudienceHolds(arg.token)
                          /\ IssuerHolds(arg.token)
                          /\ TimeHolds(arg.token, arg.now))

\* A token accepted on the first instant of its window.
C13_Witness ==
    /\ ValidateReturned
    /\ arg.token.kind = "str"
    /\ arg.token.parts = 3
    /\ arg.now = (arg.token.nbf - 300) * 1000
    /\ ret.value = TRUE

\* C14: whenever validate_id_token returns false, the user profile and
\* every other field of the session are unchanged by the call.
C14_RejectionLeavesProfile ==
    [][(ret'.fn = "validate_id_token" /\ ret.fn = "none" /\ ~ret'.value)
       => /\ user' = user
          /\ session' = session
          /\ store' = store
          /\ badge' = badge]_vars

\* A decoded token was rejected while an earlier profile was in place.
C14_Witness ==
    /\ ValidateReturned
    /\ ~ret.value
    /\ arg.token.kind = "str"
    /\ arg.token.parts = 3
    /\ user = PriorUser

\* The sum of UnreadItemCount over the folders at the given positions.
RECURSIVE SumAt(_, _)
SumAt(positions, folders) ==
    IF positions = {} THEN 0
    ELSE LET i == CHOOSE i \in positions : TRUE
         IN  folders[i].UnreadItemCount + SumAt(positions \ {i}, folders)

NotArchive(folders) ==
    {i \in 1..Len(folders) : folders[i].DisplayName # "Archive"}

\* C16: the total handed to the badge is the sum of UnreadItemCount over
\* exactly the folders not named "Archive".
C16_TotalSkipsArchive ==
    ret.fn = "calculate_total_unread_messages"
        => /\ ret.value = SumAt(NotArchive(arg.folders), arg.folders)
           /\ badge = update_status_badge(ret.value)

C16_Witness ==
    /\ ret.fn = "calculate_total_unread_messages"
    /\ arg.folders = <<[DisplayName |-> "Archive", UnreadItemCount |-> 5],
                       [DisplayName |-> "Inbox",   UnreadItemCount |-> 3],
                       [DisplayName |-> "Sent",    UnreadItemCount |-> 0]>>
    /\ ret.value = 3

Decimal == <<"1", "2", "3", "4", "5", "6", "7", "8", "9">>

\* C17: update_status_badge sets the badge text to "" for 0, to the decimal
\* text of the count for 1..9, and to "9+" for a count above 9.
C17_BadgeText ==
    ret.fn = "update_status_badge"
        => badge = IF arg.count = 0 THEN ""
                   ELSE IF arg.count <= 9 THEN Decimal[arg.count]
                   ELSE "9+"

C17_Witness ==
    /\ ret.fn = "update_status_badge"
    /\ arg.count = 9
    /\ badge = "9"

\* Nothing is in flight: no web-auth flow, no request, no store write.
Quiescent ==
    /\ flows = {}
    /\ auths = {}
    /\ writes = <<>>
    /\ \A p \in fmcs : p.pc \notin {"first", "retry"}

\* C15: whenever nothing is in flight, the persisted record equals the
\* session in memory.
C15_StoreEqualsSession ==
    Quiescent
        => store = SyncData(access_token, id_token, user, current_nonce,
                            is_authorized)

\* C18: a first mail-folder response with status >= 500 starts no
\* authorization attempt and no second request and leaves badge and session
\* unchanged; the badge text changes only on a successful mail-folder
\* response.
C18_ServerErrorAborts ==
    [][/\ (/\ event'.op = "mail_response"
           /\ event'.fmc.pc = "first"
           /\ event'.response.status >= 500)
          => /\ attempts' = attempts
             /\ flows' = flows
             /\ silentAuths' = silentAuths
             /\ mailReqs' = mailReqs
             /\ fmcs' = fmcs \ {event'.fmc}
             /\ badge' = badge
             /\ session' = session
       /\ badge' # badge
          => /\ event'.op = "mail_response"
             /\ Ok(event'.response.status)]_vars

C18_Witness ==
    /\ event.op = "mail_response"
    /\ event.fmc.pc = "first"
    /\ event.response.status >= 500
    /\ event.fmc \notin fmcs

\* C19: after finish_auth accepts an id token: the tokens and is_authorized
\* are set and one /me request is issued; when it is answered the session
\* is handed to the store once, with user.email changed only by a
\* successful answer; a new fetch_message_count starts only when that write
\* has completed (or on a tick).
C19_AcceptedSteps ==
    [][/\ (event'.op = "finish_auth" /\ auths' # auths)
          => /\ is_authorized'
             /\ id_token' = parse_auth_response(event'.result.url).id_token
             /\ access_token'
                  = parse_auth_response(event'.result.url).access_token
             /\ \E a \in auths' :
                   /\ auths' = auths \cup {a}
                   /\ a \notin auths
                   /\ a.nonce = event'.flow.nonce
                   /\ a.req.url = me_url
             /\ writes' = writes
             /\ store' = store
             /\ nextFmc' = nextFmc
       /\ event'.op = "me_response"
          => /\ auths' = auths \ {event'.auth}
             /\ Len(writes') = Len(writes) + 1
             /\ writes'[Len(writes')].data
                  = SyncData(access_token', id_token', user', current_nonce',
                             is_authorized')
             /\ store' = store
             /\ nextFmc' = nextFmc
             /\ user' = IF Ok(event'.response.status)
                        THEN [user EXCEPT
                                 !.email = event'.response.EmailAddress]
                        ELSE user
       /\ event'.op = "storage_done"
          => /\ writes # <<>>
             /\ store' = Head(writes).data
             /\ writes' = Tail(writes)
             /\ nextFmc' = nextFmc + 1
             /\ \E p \in fmcs' : p.id = nextFmc /\ p.pc = "first"
       /\ nextFmc' # nextFmc => event'.op \in {"tick", "storage_done"}
       /\ writes' # writes => event'.op \in {"me_response", "storage_done"}
       /\ auths' # auths => event'.op \in {"finish_auth", "me_response"}]_vars

\* The fetch started by the completed write of an authorization whose /me
\* request had failed: the write and the fetch happen all the same, the
\* profile has no address.
C19_Witness ==
    /\ event.op = "storage_done"
    /\ \E p \in fmcs : p.id = nextFmc - 1 /\ p.pc = "first"
    /\ store.is_authorized
    /\ store.user.email = Undefined

\* C20: while an attempt's flow is in flight (launched, its redirect
\* response not yet validated), current_nonce is that attempt's nonce.
C20_NonceRetained ==
    \A f \in flows : current_nonce = f.nonce

\* The token is one that validate_id_token accepts in some authorization
\* attempt made so far: three parts, the nonce of an attempt, the audience,
\* the issuer and the time window.
Acceptable(t) ==
    /\ t.kind = "str"
    /\ t.parts = 3
    /\ \E n \in IssuedNonces : NonceHolds(t, n)
    /\ AudienceHolds(t)
    /\ IssuerHolds(t)
    /\ \E now \in Times : TimeHolds(t, now)

\* C21: is_authorized is true only if id_token is a token that
\* validate_id_token accepted; every mail-folder or profile request in
\* flight or issued was sent by an authorized session; the store and the
\* writes on their way to it never hold is_authorized = true with a null or
\* unaccepted id_token.
C21_AuthorizedOnlyByValidToken ==
    /\ is_authorized => Acceptable(id_token)
    /\ (fmcs # {} \/ auths # {}) => is_authorized
    /\ (\E o \in Origins : mailReqs[o] > 0) => is_authorized
    /\ store.is_authorized => Acceptable(store.id_token)
    /\ \A i \in 1..Len(writes) :
          writes[i].data.is_authorized => Acceptable(writes[i].data.id_token)

\* An authorized session, recorded in the store, with a mail-folder request
\* in flight.
C21_Witness ==
    /\ is_authorized
    /\ store.is_authorized
    /\ \E p \in fmcs : p.pc = "first"

====
